---- MODULE Spec2Model ----
(***************************************************************************)
(* Filesystem MCP server (src/server.py): the path sanitizer secure_path,  *)
(* the tools read_file, list_directory and search_files over a small       *)
(* filesystem, and the watchdog change handler with its bounded list       *)
(* file_changes.                                                            *)
(*                                                                         *)
(* A path is a sequence of one-character strings, so that the prefix test  *)
(* of secure_path is the string test str.startswith and not a test on path *)
(* components.  The os.path functions are the POSIX ones (posixpath).      *)
(***************************************************************************)
EXTENDS Naturals, Sequences, FiniteSets

VARIABLES
    BASE_DIR,      \* the module-level BASE_DIR, fixed at start-up
    fs,            \* the filesystem: path -> node, for the paths that exist
    pc,            \* the tool-call loop: "idle" | "done"
    call,          \* the tool call being answered
    result,        \* what the call returned or raised
    file_changes,  \* the module-level list of change records
    wpc,           \* the observer thread: "idle" | "appended" | "dead"
    nevents,       \* events delivered to on_any_event so far
    nother,        \* how many of them were not the ordinary event
    expected,      \* history: the record each delivered file event calls for
    returned       \* what get_recent_changes returned in the last step

vars == <<BASE_DIR, fs, pc, call, result, file_changes, wpc, nevents, nother,
          expected, returned>>

----------------------------------------------------------------------------
(* Bounds *)

MaxPathLen == 6

\* events the observer delivers in one run
MaxEvents == 102

\* how many of them may differ from the ordinary event, a modification of an
\* existing file
MaxOtherEvents == 1

----------------------------------------------------------------------------
(* Strings *)

SEP == "/"

Alphabet == {"/", ".", "d", "x"}

Strings(n) == UNION {[1..k -> Alphabet] : k \in 0..n}

\* str.startswith
StartsWith(s, prefix) ==
    /\ Len(prefix) <= Len(s)
    /\ SubSeq(s, 1, Len(prefix)) = prefix

\* s[i:] for a 0-based i
Drop(s, i) == SubSeq(s, i + 1, Len(s))

\* str.split('/'): the pieces between separators, empty pieces kept
RECURSIVE SplitFrom(_, _, _)
SplitFrom(s, i, cur) ==
    IF i > Len(s) THEN <<cur>>
    ELSE IF s[i] = SEP THEN <<cur>> \o SplitFrom(s, i + 1, <<>>)
    ELSE SplitFrom(s, i + 1, Append(cur, s[i]))

Split(s) == SplitFrom(s, 1, <<>>)

\* '/'.join(comps)
RECURSIVE JoinComps(_)
JoinComps(comps) ==
    IF comps = <<>> THEN <<>>
    ELSE IF Len(comps) = 1 THEN comps[1]
    ELSE comps[1] \o <<SEP>> \o JoinComps(Tail(comps))

DOT == <<".">>
DOTDOT == <<".", ".">>

\* os.path.isabs
isabs(path) == StartsWith(path, <<SEP>>)

\* os.path.join(a, b)
join(a, b) ==
    IF isabs(b) THEN b
    ELSE IF a = <<>> \/ a[Len(a)] = SEP THEN a \o b
    ELSE a \o <<SEP>> \o b

\* the loop of os.path.normpath over the split components
RECURSIVE NormComps(_, _, _)
NormComps(comps, new, rooted) ==
    IF comps = <<>> THEN new
    ELSE LET comp == Head(comps)
             rest == Tail(comps)
         IN  IF comp = <<>> \/ comp = DOT THEN NormComps(rest, new, rooted)
             ELSE IF \/ comp # DOTDOT
                     \/ (~rooted /\ new = <<>>)
                     \/ (new # <<>> /\ new[Len(new)] = DOTDOT)
                  THEN NormComps(rest, Append(new, comp), rooted)
             ELSE IF new # <<>>
                  THEN NormComps(rest, SubSeq(new, 1, Len(new) - 1), rooted)
             ELSE NormComps(rest, new, rooted)

\* the leading slashes os.path.normpath keeps: exactly two stay two
InitialSlashes(path) ==
    IF ~StartsWith(path, <<SEP>>) THEN <<>>
    ELSE IF StartsWith(path, <<SEP, SEP>>) /\ ~StartsWith(path, <<SEP, SEP, SEP>>)
         THEN <<SEP, SEP>>
    ELSE <<SEP>>

\* os.path.normpath
normpath(path) ==
    IF path = <<>> THEN DOT
    ELSE LET lead == InitialSlashes(path)
             out  == lead \o JoinComps(NormComps(Split(path), <<>>, lead # <<>>))
         IN  IF out = <<>> THEN DOT ELSE out

----------------------------------------------------------------------------
(* Results *)

Ok(v) == [ok |-> TRUE, value |-> v]
Raise(e) == [ok |-> FALSE, error |-> e]
NoCall == [op |-> "none"]
NoResult == [ok |-> FALSE, error |-> "none"]

----------------------------------------------------------------------------
(* secure_path *)

\* the containment test with a separator appended to the base, whatever the
\* base ends with
InBaseSep(normalized_path, base) == StartsWith(normalized_path, base \o <<SEP>>)

\* the containment test of secure_path
InBase(normalized_path, base) == StartsWith(normalized_path, base)

secure_path_in(path, base) ==
    LET abs == IF ~isabs(path) THEN join(base, path) ELSE path
        normalized_path == normpath(abs)
    IN  IF ~InBase(normalized_path, base)
        THEN Raise("Access denied")
        ELSE Ok(normalized_path)

secure_path(path) == secure_path_in(path, BASE_DIR)

----------------------------------------------------------------------------
(* More of os.path *)

NonEmpty(comps) == SelectSeq(comps, LAMBDA c : c # <<>>)

\* the index of the last separator of s, 0 when it has none (str.rfind + 1)
RECURSIVE LastSep(_, _)
LastSep(s, i) == IF i = 0 THEN 0 ELSE IF s[i] = SEP THEN i ELSE LastSep(s, i - 1)

\* str.rstrip('/')
RECURSIVE RStripSep(_)
RStripSep(s) ==
    IF s # <<>> /\ s[Len(s)] = SEP THEN RStripSep(SubSeq(s, 1, Len(s) - 1)) ELSE s

\* os.path.split: <<head, tail>>
split(p) ==
    LET i    == LastSep(p, Len(p))
        head == SubSeq(p, 1, i)
        tail == Drop(p, i)
    IN  <<IF RStripSep(head) # <<>> THEN RStripSep(head) ELSE head, tail>>

\* the length of the common prefix of two component lists
RECURSIVE CommonLen(_, _)
CommonLen(a, b) ==
    IF a = <<>> \/ b = <<>> \/ Head(a) # Head(b) THEN 0
    ELSE 1 + CommonLen(Tail(a), Tail(b))

\* os.path.relpath(path, start), both absolute
relpath(path, start) ==
    LET start_list == NonEmpty(Split(normpath(start)))
        path_list  == NonEmpty(Split(normpath(path)))
        i          == CommonLen(start_list, path_list)
        rel_list   == [k \in 1..(Len(start_list) - i) |-> DOTDOT]
                        \o SubSeq(path_list, i + 1, Len(path_list))
    IN  IF rel_list = <<>> THEN DOT ELSE JoinComps(rel_list)

----------------------------------------------------------------------------
(* The filesystem.  F.nodes maps the normalized absolute path of every      *)
(* existing node to the node; F.rev tells the order in which the OS lists   *)
(* a directory.  There are no symbolic links.                               *)

Key(comps) == <<SEP>> \o JoinComps(comps)

NotFound == [found |-> FALSE, key |-> <<>>]

\* the kernel's path lookup from the root along the components
RECURSIVE Walk(_, _, _)
Walk(F, comps, cur) ==
    IF comps = <<>> THEN [found |-> TRUE, key |-> Key(cur)]
    ELSE IF F.nodes[Key(cur)].kind # "dir" THEN NotFound
    ELSE LET c == Head(comps)
         IN  IF c = <<>> \/ c = DOT THEN Walk(F, Tail(comps), cur)
             ELSE IF c = DOTDOT
                  THEN Walk(F, Tail(comps),
                            IF cur = <<>> THEN cur ELSE SubSeq(cur, 1, Len(cur) - 1))
             ELSE IF Key(Append(cur, c)) \in DOMAIN F.nodes
                  THEN Walk(F, Tail(comps), Append(cur, c))
             ELSE NotFound

Resolve(F, path) == IF ~isabs(path) THEN NotFound ELSE Walk(F, Split(path), <<>>)

lexists(F, path) == Resolve(F, path).found

isdir(F, path) ==
    LET r == Resolve(F, path) IN r.found /\ F.nodes[r.key].kind = "dir"

isfile(F, path) ==
    LET r == Resolve(F, path) IN r.found /\ F.nodes[r.key].kind = "file"

getsize(F, path) == F.nodes[Resolve(F, path).key].size

\* the order in which a directory's entries come out of the OS
NodeOrder ==
    << <<"/", "d">>, <<"/", "d", "x">>, <<"/", "x">>,
       <<"/", "d", "/", "x">>, <<"/", "d", "/", ".", "x">>,
       <<"/", "d", "/", "d">>, <<"/", "d", "/", "d", "/", "x">>,
       <<"/", "d", "x", "/", "x">> >>

Reverse(s) == [i \in 1..Len(s) |-> s[Len(s) + 1 - i]]

\* os.listdir of an existing directory: the names of its children
listdir(F, path) ==
    LET dir   == NonEmpty(Split(Resolve(F, path).key))
        order == IF F.rev THEN Reverse(NodeOrder) ELSE NodeOrder
        kids  == SelectSeq(order, LAMBDA k :
                     /\ k \in DOMAIN F.nodes
                     /\ LET c == NonEmpty(Split(k))
                        IN  Len(c) = Len(dir) + 1 /\ SubSeq(c, 1, Len(dir)) = dir)
    IN  [i \in 1..Len(kids) |-> LET c == NonEmpty(Split(kids[i])) IN c[Len(c)]]

RECURSIVE Flatten(_)
Flatten(ss) == IF ss = <<>> THEN <<>> ELSE Head(ss) \o Flatten(Tail(ss))

----------------------------------------------------------------------------
(* glob.glob, for patterns whose only wildcard is '*' *)

has_magic(s) == \E i \in 1..Len(s) : s[i] = "*"

STARSTAR == <<"*", "*">>

isrecursive(pattern) == pattern = STARSTAR

ishidden(name) == name # <<>> /\ name[1] = "."

RECURSIVE fnmatch(_, _)
fnmatch(name, pat) ==
    IF pat = <<>> THEN name = <<>>
    ELSE IF Head(pat) = "*"
         THEN fnmatch(name, Tail(pat)) \/ (name # <<>> /\ fnmatch(Tail(name), pat))
    ELSE name # <<>> /\ Head(name) = Head(pat) /\ fnmatch(Tail(name), Tail(pat))

\* glob._join
gjoin(dirname, basename) ==
    IF dirname = <<>> \/ basename = <<>>
    THEN (IF dirname # <<>> THEN dirname ELSE basename)
    ELSE join(dirname, basename)

\* glob._listdir: nothing when the directory cannot be scanned
glistdir(F, dirname, dironly) ==
    IF ~isdir(F, dirname) THEN <<>>
    ELSE SelectSeq(listdir(F, dirname),
                   LAMBDA x : ~dironly \/ isdir(F, join(dirname, x)))

glob0(F, dirname, basename) ==
    IF basename # <<>>
    THEN (IF lexists(F, gjoin(dirname, basename)) THEN <<basename>> ELSE <<>>)
    ELSE (IF isdir(F, dirname) THEN <<basename>> ELSE <<>>)

glob1(F, dirname, pattern, dironly) ==
    LET names == glistdir(F, dirname, dironly)
        shown == IF ~ishidden(pattern)
                 THEN SelectSeq(names, LAMBDA x : ~ishidden(x))
                 ELSE names
    IN  SelectSeq(shown, LAMBDA x : fnmatch(x, pattern))

RECURSIVE rlistdir(_, _, _)
rlistdir(F, dirname, dironly) ==
    LET names == SelectSeq(glistdir(F, dirname, dironly), LAMBDA x : ~ishidden(x))
    IN  Flatten([i \in 1..Len(names) |->
            LET x   == names[i]
                sub == rlistdir(F, gjoin(dirname, x), dironly)
            IN  <<x>> \o [j \in 1..Len(sub) |-> gjoin(x, sub[j])]])

glob2(F, dirname, dironly) == << <<>> >> \o rlistdir(F, dirname, dironly)

RECURSIVE iglob(_, _, _, _)
iglob(F, pathname, recursive, dironly) ==
    LET dirname  == split(pathname)[1]
        basename == split(pathname)[2]
    IN  IF ~has_magic(pathname)
        THEN (IF basename # <<>>
              THEN (IF lexists(F, pathname) THEN <<pathname>> ELSE <<>>)
              ELSE (IF isdir(F, dirname) THEN <<pathname>> ELSE <<>>))
        ELSE LET dirs == IF dirname # pathname /\ has_magic(dirname)
                         THEN iglob(F, dirname, recursive, TRUE)
                         ELSE <<dirname>>
                 in_dir(d) ==
                     IF has_magic(basename)
                     THEN (IF recursive /\ isrecursive(basename)
                           THEN glob2(F, d, dironly)
                           ELSE glob1(F, d, basename, dironly))
                     ELSE glob0(F, d, basename)
             IN  Flatten([i \in 1..Len(dirs) |->
                     LET names == in_dir(dirs[i])
                     IN  [j \in 1..Len(names) |-> join(dirs[i], names[j])]])

\* glob.glob of an absolute pathname
glob(F, pathname, recursive) == iglob(F, pathname, recursive, FALSE)

----------------------------------------------------------------------------
(* Text: str.splitlines, str.strip, re.compile, regex.search *)

NL == "\n"

RECURSIVE LinesFrom(_, _, _)
LinesFrom(s, i, cur) ==
    IF i > Len(s) THEN (IF cur = <<>> THEN <<>> ELSE <<cur>>)
    ELSE IF s[i] = NL THEN <<cur>> \o LinesFrom(s, i + 1, <<>>)
    ELSE LinesFrom(s, i + 1, Append(cur, s[i]))

\* str.splitlines: a final line break opens no further line
splitlines(s) == LinesFrom(s, 1, <<>>)

RECURSIVE lstrip(_)
lstrip(s) == IF s # <<>> /\ s[1] = " " THEN lstrip(Tail(s)) ELSE s

RECURSIVE rstrip(_)
rstrip(s) ==
    IF s # <<>> /\ s[Len(s)] = " " THEN rstrip(SubSeq(s, 1, Len(s) - 1)) ELSE s

\* str.strip
strip(s) == rstrip(lstrip(s))

\* an Optional[str] argument
None == [none |-> TRUE, s |-> <<>>]
Some(s) == [none |-> FALSE, s |-> s]

\* the truth value Python gives an Optional[str]
Truthy(o) == ~o.none /\ o.s # <<>>

\* re.compile accepts the pattern: here, it has no unclosed group
re_valid(pattern) == \A i \in 1..Len(pattern) : pattern[i] # "("

\* regex.search(line) for a pattern of literal characters
re_search(pattern, line) ==
    \E i \in 0..(Len(line) - Len(pattern)) :
        SubSeq(line, i + 1, i + Len(pattern)) = pattern

----------------------------------------------------------------------------
(* The tools *)

Fail(prefix, e) == [ok |-> FALSE, error |-> prefix, cause |-> e.error]

\* read_file
read_file(F, base, path) ==
    LET sp == secure_path_in(path, base)
    IN  IF ~sp.ok THEN Fail("Failed to read file", sp)
        ELSE IF ~isfile(F, sp.value)
             THEN Fail("Failed to read file", Raise("File does not exist"))
        ELSE LET node == F.nodes[Resolve(F, sp.value).key]
             IN  IF ~node.readable
                 THEN Fail("Failed to read file", Raise("read error"))
                 ELSE Ok(node.content)

\* the item_info of one directory entry
item_info(F, dir, item) ==
    LET is_dir == isdir(F, join(dir, item))
        info   == [name |-> item,
                   type |-> IF is_dir THEN "directory" ELSE "file",
                   is_hidden |-> StartsWith(item, DOT)]
    IN  IF ~is_dir
        THEN [name |-> info.name, type |-> info.type, is_hidden |-> info.is_hidden,
              size |-> getsize(F, join(dir, item))]
        ELSE info

\* list_directory without its hidden-entry filter
listed_all(item, include_hidden) == TRUE

\* whether list_directory keeps the entry
listed(item, include_hidden) == ~(~include_hidden /\ StartsWith(item, DOT))

\* list_directory
list_directory(F, base, path, include_hidden) ==
    LET sp == secure_path_in(path, base)
    IN  IF ~sp.ok THEN Fail("Failed to list directory", sp)
        ELSE IF ~isdir(F, sp.value)
             THEN Fail("Failed to list directory", Raise("Directory does not exist"))
        ELSE LET kept == SelectSeq(listdir(F, sp.value),
                                   LAMBDA item : listed(item, include_hidden))
             IN  Ok([i \in 1..Len(kept) |-> item_info(F, sp.value, kept[i])])

\* the lines of content that the regex finds, numbered from 1
find_matches(content, content_regex) ==
    LET lines == splitlines(content)
        hits  == SelectSeq([i \in 1..Len(lines) |-> i],
                           LAMBDA i : re_search(content_regex, lines[i]))
    IN  [k \in 1..Len(hits) |->
            [line_number |-> hits[k], content |-> strip(lines[hits[k]])]]

\* the try block of search_files: read the file, compile the regex, search
scan_file(F, file_path, content_regex) ==
    LET node == F.nodes[Resolve(F, file_path).key]
    IN  IF ~node.readable THEN Raise("read error")
        ELSE IF ~re_valid(content_regex) THEN Raise("re.error")
        ELSE Ok(find_matches(node.content, content_regex))

\* search_files without the inner try: a file that cannot be scanned ends
\* the call
search_one_fatal(F, base, file_path, content_regex) ==
    IF ~isfile(F, file_path) THEN Ok(<<>>)
    ELSE LET res == [path |-> relpath(file_path, base),
                     size |-> getsize(F, file_path)]
         IN  IF Truthy(content_regex)
             THEN LET scan == scan_file(F, file_path, content_regex.s)
                  IN  IF ~scan.ok THEN scan
                      ELSE IF scan.value # <<>>
                           THEN Ok(<<[path |-> res.path, size |-> res.size,
                                      matches |-> scan.value]>>)
                      ELSE Ok(<<>>)
             ELSE Ok(<<res>>)

\* what one glob match adds to matching_files, and whether it ends the call
search_one(F, base, file_path, content_regex) ==
    IF ~isfile(F, file_path) THEN Ok(<<>>)
    ELSE LET res == [path |-> relpath(file_path, base),
                     size |-> getsize(F, file_path)]
         IN  IF Truthy(content_regex)
             THEN LET scan == scan_file(F, file_path, content_regex.s)
                  IN  IF ~scan.ok THEN Ok(<<>>)     \* logged, the file is skipped
                      ELSE IF scan.value # <<>>
                           THEN Ok(<<[path |-> res.path, size |-> res.size,
                                      matches |-> scan.value]>>)
                      ELSE Ok(<<>>)
             ELSE Ok(<<res>>)

\* the loop of search_files over the glob's matches
RECURSIVE search_loop(_, _, _, _, _)
search_loop(F, base, files, content_regex, matching_files) ==
    IF files = <<>> THEN Ok(matching_files)
    ELSE LET one == search_one(F, base, Head(files), content_regex)
         IN  IF ~one.ok THEN one
             ELSE search_loop(F, base, Tail(files), content_regex,
                              matching_files \o one.value)

\* the glob pattern search_files builds
search_pattern(secure_search_path, pattern, recursive) ==
    IF recursive
    THEN join(join(secure_search_path, STARSTAR), pattern)
    ELSE join(secure_search_path, pattern)

\* search_files
search_files(F, base, pattern, search_path, recursive, content_regex) ==
    LET sp == secure_path_in(search_path, base)
    IN  IF ~sp.ok THEN Fail("Failed to search files", sp)
        ELSE IF ~isdir(F, sp.value)
             THEN Fail("Failed to search files", Raise("Search path does not exist"))
        ELSE LET files == glob(F, search_pattern(sp.value, pattern, recursive),
                               recursive)
                 out   == search_loop(F, base, files, content_regex, <<>>)
             IN  IF out.ok THEN out ELSE Fail("Failed to search files", out)

----------------------------------------------------------------------------
(* The configurations explored *)

\* BASE_DIR: the root, an ordinary directory, the same with a trailing slash
BaseDirs == { <<"/">>, <<"/", "d">>, <<"/", "d", "/">> }

Dir == [kind |-> "dir"]
Absent == [kind |-> "absent"]

\* a file that cannot be read or decoded, an empty file, a file without and
\* a file with a line holding an x
Unreadable == [kind |-> "file", size |-> 2, readable |-> FALSE, content |-> <<>>]
EmptyFile == [kind |-> "file", size |-> 0, readable |-> TRUE, content |-> <<>>]
NoHit == [kind |-> "file", size |-> 2, readable |-> TRUE, content |-> <<"d", "\n">>]
Hit == [kind |-> "file", size |-> 6, readable |-> TRUE,
        content |-> <<"d", "\n", " ", "x", " ", "\n">>]

FileKinds == {Unreadable, EmptyFile, NoHit, Hit}

kRoot == <<"/">>
kBase == <<"/", "d">>
kSib == <<"/", "d", "x">>
kSibX == <<"/", "d", "x", "/", "x">>
kOut == <<"/", "x">>
kX == <<"/", "d", "/", "x">>
kHid == <<"/", "d", "/", ".", "x">>
kSub == <<"/", "d", "/", "d">>
kSubX == <<"/", "d", "/", "d", "/", "x">>

AllKeys == {kRoot, kBase, kSib, kSibX, kOut, kX, kHid, kSub, kSubX}

\* /, /d, /dx, /dx/x and /x always exist; /d/x, /d/.x, /d/d and /d/d/x vary
Layout(x, hid, sub, subx) ==
    [k \in AllKeys |->
        IF k \in {kRoot, kBase, kSib} THEN Dir
        ELSE IF k \in {kSibX, kOut} THEN Hit
        ELSE IF k = kX THEN x
        ELSE IF k = kHid THEN hid
        ELSE IF k = kSub THEN sub
        ELSE subx]

Layouts ==
    { Layout(x, hid, Absent, Absent) :
        x \in FileKinds \cup {Absent}, hid \in {Absent, Hit} }
    \cup
    { Layout(x, hid, Dir, subx) :
        x \in FileKinds \cup {Absent}, hid \in {Absent, Hit},
        subx \in FileKinds \cup {Absent} }

NodesOf(g) == [k \in {k \in AllKeys : g[k] # Absent} |-> g[k]]

Filesystems == { [nodes |-> NodesOf(g), rev |-> r] : g \in Layouts, r \in BOOLEAN }

NoFS == [nodes |-> NodesOf([k \in AllKeys |-> IF k = kRoot THEN Dir ELSE Absent]),
         rev |-> FALSE]

ListPaths == { <<".">>, <<"d">>, <<"x">>, <<"/", "d", "x">>, <<".", ".">>,
               <<"/", "d">> }

ReadPaths == { <<"x">>, <<".", "x">>, <<"d">>, <<"d", "/", "x">>,
               <<"/", "d", "x", "/", "x">>, <<".", ".", "/", "x">> }

SearchPaths == { <<".">>, <<"d">>, <<"x">>, <<"/", "d", "x">>, <<".", ".">> }

Patterns == { <<"*">>, <<"x">>, <<".", "*">>, <<"*", "*", "/", "x">>,
              <<"d", "/", "*">>, <<".", ".", "/", "x">>, <<".", ".", "/", "*">>,
              <<"/", "x">> }

Regexes == { None, Some(<<>>), Some(<<"x">>), Some(<<"(">>) }

----------------------------------------------------------------------------
(* The watcher at rest, for the specifications that do not run it *)

WatcherIdle ==
    /\ file_changes = <<>>
    /\ wpc = "idle"
    /\ nevents = 0
    /\ nother = 0
    /\ expected = <<>>
    /\ returned = NoResult

watchvars == <<file_changes, wpc, nevents, nother, expected, returned>>

----------------------------------------------------------------------------
(* SpecPath: secure_path on every string of up to MaxPathLen characters *)

InitPath ==
    /\ BASE_DIR \in BaseDirs
    /\ fs = NoFS
    /\ pc = "idle"
    /\ call = NoCall
    /\ result = NoResult
    /\ WatcherIdle

SecurePathCall ==
    /\ pc = "idle"
    /\ \E path \in Strings(MaxPathLen) :
          /\ call' = [op |-> "secure_path", path |-> path]
          /\ result' = secure_path(path)
    /\ pc' = "done"
    /\ UNCHANGED <<BASE_DIR, fs, watchvars>>

Return ==
    /\ pc = "done"
    /\ pc' = "idle"
    /\ call' = NoCall
    /\ result' = NoResult
    /\ UNCHANGED <<BASE_DIR, fs, watchvars>>

NextPath == SecurePathCall \/ Return

SpecPath == InitPath /\ [][NextPath]_vars

----------------------------------------------------------------------------
(* SpecTools: the three tools on every filesystem of Filesystems *)

InitTools ==
    /\ BASE_DIR \in BaseDirs
    /\ fs \in Filesystems
    /\ pc = "idle"
    /\ call = NoCall
    /\ result = NoResult
    /\ WatcherIdle

ReadFileCall ==
    /\ pc = "idle"
    /\ \E path \in ReadPaths :
          /\ call' = [op |-> "read_file", path |-> path]
          /\ result' = read_file(fs, BASE_DIR, path)
    /\ pc' = "done"
    /\ UNCHANGED <<BASE_DIR, fs, watchvars>>

ListDirectoryCall ==
    /\ pc = "idle"
    /\ \E path \in ListPaths, include_hidden \in BOOLEAN :
          /\ call' = [op |-> "list_directory", path |-> path,
                      include_hidden |-> include_hidden]
          /\ result' = list_directory(fs, BASE_DIR, path, include_hidden)
    /\ pc' = "done"
    /\ UNCHANGED <<BASE_DIR, fs, watchvars>>

SearchFilesCall ==
    /\ pc = "idle"
    /\ \E pattern \in Patterns, search_path \in SearchPaths,
          recursive \in BOOLEAN, content_regex \in Regexes :
          /\ call' = [op |-> "search_files", pattern |-> pattern,
                      search_path |-> search_path, recursive |-> recursive,
                      content_regex |-> content_regex]
          /\ result' = search_files(fs, BASE_DIR, pattern, search_path,
                                    recursive, content_regex)
    /\ pc' = "done"
    /\ UNCHANGED <<BASE_DIR, fs, watchvars>>

NextTools == ReadFileCall \/ ListDirectoryCall \/ SearchFilesCall \/ Return

SpecTools == InitTools /\ [][NextTools]_vars

----------------------------------------------------------------------------
(* Claims about secure_path, under SpecPath *)

\* what secure_path normalizes: the candidate, joined onto the base if relative
Normalized(path) == normpath(IF isabs(path) THEN path ELSE join(BASE_DIR, path))

\* the normalized form n names the base directory or a node below it: the
\* components of the base are a prefix of those of n (the kernel reads a
\* leading "//" as "/")
AtOrUnder(n, base) ==
    LET b == NonEmpty(Split(normpath(base)))
        c == NonEmpty(Split(n))
    IN  /\ isabs(n)
        /\ Len(b) <= Len(c)
        /\ SubSeq(c, 1, Len(b)) = b

StrictlyUnder(n, base) ==
    /\ AtOrUnder(n, base)
    /\ Len(NonEmpty(Split(n))) > Len(NonEmpty(Split(normpath(base))))

SecurePathDone == pc = "done" /\ call.op = "secure_path"

\* C1: a candidate whose normalized form is not at or under the base directory
\* is refused with an access-denied error.
C1_OutsideDenied ==
    (SecurePathDone /\ ~AtOrUnder(Normalized(call.path), BASE_DIR))
        => (~result.ok /\ result.error = "Access denied")

\* C4 as stated: a candidate whose normalized form is strictly under the base
\* directory is accepted, and the normalized path returned starts with the
\* base directory followed by a separator.
C4_UnderAcceptedSep ==
    (SecurePathDone /\ StrictlyUnder(Normalized(call.path), BASE_DIR))
        => /\ result.ok
           /\ result.value = Normalized(call.path)
           /\ StartsWith(result.value, BASE_DIR \o <<SEP>>)

\* C4 amended: a candidate whose normalized form begins with a single "/"
\* (normpath keeps a leading "//") and is strictly under the base directory is
\* accepted, and the normalized path returned starts with the base directory,
\* followed by a separator unless the base directory itself ends with one
\* (the root "/").
C4_UnderAccepted ==
    (/\ SecurePathDone
     /\ StrictlyUnder(Normalized(call.path), BASE_DIR)
     /\ InitialSlashes(Normalized(call.path)) = <<SEP>>)
        => /\ result.ok
           /\ result.value = Normalized(call.path)
           /\ StartsWith(result.value, BASE_DIR)
           /\ (BASE_DIR[Len(BASE_DIR)] # SEP
                 => StartsWith(result.value, BASE_DIR \o <<SEP>>))

\* a relative candidate with a segment to resolve, strictly under the base
C4_Witness ==
    /\ SecurePathDone
    /\ StrictlyUnder(Normalized(call.path), BASE_DIR)
    /\ ~isabs(call.path)
    /\ Normalized(call.path) # join(BASE_DIR, call.path)
    /\ \E i \in 1..Len(Split(call.path)) : Split(call.path)[i] = DOTDOT
    /\ result.ok

----------------------------------------------------------------------------
(* Claims about list_directory and search_files, under SpecTools *)

ListDone == pc = "done" /\ call.op = "list_directory"

SearchDone == pc = "done" /\ call.op = "search_files"

\* the immediate children of the directory at path, as nodes of fs
ChildrenOf(path) ==
    LET dir == NonEmpty(Split(Resolve(fs, path).key))
    IN  { k \in DOMAIN fs.nodes :
            LET c == NonEmpty(Split(k))
            IN  Len(c) = Len(dir) + 1 /\ SubSeq(c, 1, Len(dir)) = dir }

LastName(k) == LET c == NonEmpty(Split(k)) IN c[Len(c)]

\* C7: list_directory with include_hidden=false returns no entry whose name
\* starts with '.', with include_hidden=true exactly one entry for every
\* immediate child; every entry has is_hidden = (name starts with '.') and
\* carries a size if and only if it is not a directory.
C7_Listing ==
    (ListDone /\ result.ok) =>
      LET items == result.value
          kids  == ChildrenOf(Normalized(call.path))
      IN  /\ ~call.include_hidden
                => \A i \in 1..Len(items) : items[i].name[1] # "."
          /\ call.include_hidden
                => /\ Len(items) = Cardinality(kids)
                   /\ \A k \in kids :
                        Cardinality({i \in 1..Len(items) :
                                        items[i].name = LastName(k)}) = 1
          /\ \A i \in 1..Len(items) :
                /\ items[i].is_hidden = (items[i].name[1] = ".")
                /\ ("size" \in DOMAIN items[i]) <=> (items[i].type # "directory")
                /\ \E k \in kids :
                      /\ LastName(k) = items[i].name
                      /\ (items[i].type = "directory") <=> (fs.nodes[k].kind = "dir")

\* a listing without hidden entries of a directory that holds a hidden file,
\* a file and a subdirectory
C7_Witness ==
    /\ ListDone /\ result.ok /\ ~call.include_hidden
    /\ LET kids == ChildrenOf(Normalized(call.path))
       IN  /\ \E k \in kids : LastName(k)[1] = "."
           /\ \E k \in kids : fs.nodes[k].kind = "dir"
           /\ \E k \in kids : fs.nodes[k].kind = "file" /\ LastName(k)[1] # "."
    /\ Len(result.value) >= 2

\* what the glob of the call returned
Matched ==
    glob(fs, search_pattern(Normalized(call.search_path), call.pattern,
                            call.recursive), call.recursive)

\* the regular files among the matches m of a glob, as nodes of fs
FilesAmong(m) ==
    { Resolve(fs, m[i]).key : i \in {j \in 1..Len(m) : isfile(fs, m[j])} }

\* the Search Results that refer to the file k
ResultsFor(k) ==
    { i \in 1..Len(result.value) : result.value[i].path = relpath(k, BASE_DIR) }

\* at least one line of the file k matches the regex
HasMatchingLine(k, regex) ==
    /\ fs.nodes[k].readable
    /\ re_valid(regex)
    /\ \E i \in 1..Len(splitlines(fs.nodes[k].content)) :
          re_search(regex, splitlines(fs.nodes[k].content)[i])

\* C5: a call of search_files with a syntactically invalid content_regex
\* raises an error and returns no result list.
C5_InvalidRegexFails ==
    (/\ SearchDone
     /\ ~call.content_regex.none
     /\ ~re_valid(call.content_regex.s))
        => ~result.ok

\* C6: every Search Result refers to a regular file matched by the glob;
\* without a content_regex there is exactly one Search Result for every such
\* file; with a content_regex such a file is in the result if and only if at
\* least one of its lines matches the regex.
C6_Membership ==
    (SearchDone /\ result.ok) =>
      LET files == FilesAmong(Matched)
      IN  /\ \A i \in 1..Len(result.value) :
                \E k \in files : i \in ResultsFor(k)
          /\ IF call.content_regex.none
             THEN \A k \in files : Cardinality(ResultsFor(k)) = 1
             ELSE \A k \in files :
                     (ResultsFor(k) # {})
                        <=> HasMatchingLine(k, call.content_regex.s)

\* the filesystem without the node k
Without(F, k) ==
    [nodes |-> [j \in DOMAIN F.nodes \ {k} |-> F.nodes[j]], rev |-> F.rev]

\* the files of fs that cannot be read
UnreadableFiles ==
    { k \in DOMAIN fs.nodes : fs.nodes[k].kind = "file" /\ ~fs.nodes[k].readable }

\* those of them that the glob of the call matched
UnreadableMatched ==
    IF UnreadableFiles = {} THEN {}
    ELSE LET files == FilesAmong(Matched) IN UnreadableFiles \cap files

SameCallOn(F) ==
    search_files(F, BASE_DIR, call.pattern, call.search_path, call.recursive,
                 call.content_regex)

C10_ResultsInBase ==
    (/\ SearchDone /\ result.ok
     /\ AtOrUnder(Normalized(call.search_path), BASE_DIR))
        => \A i \in 1..Len(result.value) :
              ~StartsWith(result.value[i].path, DOTDOT)

----------------------------------------------------------------------------
(* The change watcher.  The observer thread delivers the events one after   *)
(* another to on_any_event; get_recent_changes runs on the server's thread  *)
(* and may run between any two steps of the handler.                        *)

\* the capacity kept by on_any_event
MaxChanges == 100

WatchPaths == { <<"/", "d", "/", "x">>, <<"/", "d", "/", "d", "/", "x">> }

EventTypes == {"created", "modified", "deleted", "moved"}

Events == [src_path : WatchPaths, event_type : EventTypes, is_directory : BOOLEAN]

\* the path at the time of the handler's os.path.exists and os.path.getmtime:
\* there at both, gone at both, or deleted between the two
Presence == {"present", "gone", "vanishes"}

OrdinaryEvent ==
    [src_path |-> <<"/", "d", "/", "x">>, event_type |-> "modified",
     is_directory |-> FALSE]

\* the change record on_any_event builds; os.path.getmtime raises when the
\* path is gone by the time it is called
change_of(event, presence) ==
    IF presence = "vanishes" THEN Raise("FileNotFoundError")
    ELSE Ok([path |-> relpath(event.src_path, BASE_DIR),
             type |-> event.event_type,
             time |-> IF presence = "present" THEN "mtime" ELSE "None"])

\* the record the event calls for: the time is null when the path is gone
record_for(event, presence) ==
    [path |-> relpath(event.src_path, BASE_DIR),
     type |-> event.event_type,
     time |-> IF presence = "present" THEN "mtime" ELSE "None"]

InitWatch ==
    /\ BASE_DIR = <<"/", "d">>
    /\ fs = NoFS
    /\ pc = "idle"
    /\ call = NoCall
    /\ result = NoResult
    /\ WatcherIdle

\* on_any_event up to file_changes.append; an exception ends the observer
\* thread, whose loop catches nothing but queue.Empty
OnAnyEvent ==
    /\ wpc = "idle"
    /\ nevents < MaxEvents
    /\ \E event \in Events, presence \in Presence :
          LET ordinary == event = OrdinaryEvent /\ presence = "present"
              change   == change_of(event, presence)
          IN  /\ ordinary \/ nother < MaxOtherEvents
              /\ nother' = IF ordinary THEN nother ELSE nother + 1
              /\ IF event.is_directory
                 THEN /\ wpc' = "idle"
                      /\ UNCHANGED <<file_changes, expected>>
                 ELSE /\ expected' = Append(expected, record_for(event, presence))
                      /\ IF change.ok
                         THEN /\ file_changes' = Append(file_changes, change.value)
                              /\ wpc' = "appended"
                         ELSE /\ wpc' = "dead"
                              /\ UNCHANGED file_changes
    /\ nevents' = nevents + 1
    /\ returned' = NoResult
    /\ UNCHANGED <<BASE_DIR, fs, pc, call, result>>

\* the list after the eviction step of on_any_event
trimmed(changes) == IF Len(changes) > MaxChanges THEN Tail(changes) ELSE changes

\* on_any_event from the length test to its return
OnAnyEventTrim ==
    /\ wpc = "appended"
    /\ file_changes' = trimmed(file_changes)
    /\ wpc' = "idle"
    /\ returned' = NoResult
    /\ UNCHANGED <<BASE_DIR, fs, pc, call, result, nevents, nother, expected>>

\* get_recent_changes: json.dumps of the list as it is at that moment
GetRecentChanges ==
    /\ returned' = Ok(file_changes)
    /\ UNCHANGED <<BASE_DIR, fs, pc, call, result, file_changes, wpc, nevents,
                   nother, expected>>

NextWatch == OnAnyEvent \/ OnAnyEventTrim \/ GetRecentChanges

SpecWatch == InitWatch /\ [][NextWatch]_vars

----------------------------------------------------------------------------
(* Claims about the change watcher, under SpecWatch *)

\* C2: get_recent_changes never returns more than 100 records, whenever it
\* runs, also between the append and the eviction of on_any_event (what a
\* caller sees of "file_changes never holds more than 100 records").
C2_QueryAtMostMaxChanges ==
    returned.ok => Len(returned.value) <= MaxChanges

\* the last k elements of s
LastOf(s, k) == IF Len(s) <= k THEN s ELSE SubSeq(s, Len(s) - k + 1, Len(s))

\* C3: once the events delivered so far have been handled, file_changes holds
\* the records of the last min(n, 100) file events, in arrival order.
C3_LastRecords ==
    wpc # "appended" => file_changes = LastOf(expected, MaxChanges)

\* What remains of C3 as long as no handler has raised: between two events
\* file_changes holds the records of the last min(n, 100) file events, in
\* arrival order.
LastRecordsWhileAlive ==
    wpc = "idle" => file_changes = LastOf(expected, MaxChanges)

\* C9: the handling of an event on a file appends exactly one change record,
\* that of the event, to file_changes; an event on a directory leaves
\* file_changes unchanged.
C9_OneRecordPerEvent ==
    [][nevents' = nevents + 1 =>
          IF expected' = expected
          THEN file_changes' = file_changes
          ELSE file_changes' = Append(file_changes, expected'[Len(expected')])]_vars

====
